---- MODULE Spec2Model ----
(***************************************************************************)
(* run_v5_3.py: a batch script that loads a table of sportsbook prop       *)
(* prices, converts prices to implied probabilities, takes the cross-book  *)
(* median per proposition, keeps the best offer per proposition, and       *)
(* prints a singles list and two no-same-game parlays.                     *)
(*                                                                         *)
(* The script is straight-line code; each action below is one contiguous   *)
(* block of it, and pc names the block that runs next.  Floating-point     *)
(* values are modelled by exact fractions <<n, d>> in lowest terms with    *)
(* d > 0; NaN is <<0, 0>>.                                                 *)
(***************************************************************************)
EXTENDS Integers, Sequences, FiniteSets, TLC

VARIABLES
  env,        \* the process environment: PROPS_URL and ROW_LIMIT as text
  source,     \* what PROPS_URL points at: readable?, header, rows
  pc,         \* the block of the script that runs next
  exit_status,\* -1 while running; the process exit status afterwards
  out,        \* what has been printed, one tag per message / report section
  df,         \* the working frame
  best,       \* one row per proposition key (line 51)
  singles,    \* line 53-54
  best_pool,  \* line 56-57
  parlay3,    \* line 77
  parlay4,    \* line 78
  metrics     \* (ip3, us3, ip4, us4) of lines 79-80

vars == <<env, source, pc, exit_status, out, df, best, singles, best_pool,
          parlay3, parlay4, metrics>>

----------------------------------------------------------------------------
(* Bounds of the model *)

MaxRows     == 3    \* rows of a row-level feed
MaxProps    == 3    \* propositions of a mixed slate
MaxLadder   == 7    \* propositions of a ladder slate
LadderGames == 4    \* distinct games of a ladder slate
MaxPrice    == 300  \* |price| of a single-offer feed
MaxLegs     == 5    \* largest target n tried on build_parlay

----------------------------------------------------------------------------
(* Exact fractions standing for the script's floats *)

NaN == <<0, 0>>

isnan(x) == x[2] = 0

Abs(n) == IF n < 0 THEN -n ELSE n

RECURSIVE Gcd(_, _)
Gcd(a, b) == IF b = 0 THEN a ELSE Gcd(b, a % b)

\* n/d in lowest terms with a positive denominator (d # 0)
Frac(n, d) ==
  LET g == Gcd(Abs(n), Abs(d))
      s == IF d < 0 THEN -1 ELSE 1
  IN  <<(s * n) \div g, (s * d) \div g>>

\* NaN propagates through arithmetic, as in IEEE 754
Sub(x, y) ==
  IF isnan(x) \/ isnan(y) THEN NaN
  ELSE Frac(x[1] * y[2] - y[1] * x[2], x[2] * y[2])

Add(x, y) ==
  IF isnan(x) \/ isnan(y) THEN NaN
  ELSE Frac(x[1] * y[2] + y[1] * x[2], x[2] * y[2])

Mul(x, y) ==
  IF isnan(x) \/ isnan(y) THEN NaN
  ELSE Frac(x[1] * y[1], x[2] * y[2])

\* every comparison with NaN is false
Lt(x, y) == ~isnan(x) /\ ~isnan(y) /\ x[1] * y[2] < y[1] * x[2]
Ge(x, y) == ~isnan(x) /\ ~isnan(y) /\ x[1] * y[2] >= y[1] * x[2]
Gt(x, y) == Lt(y, x)
Le(x, y) == Ge(y, x)

\* Python 3 round(): to the nearest integer, ties to the even one
round(x) ==
  LET fl  == x[1] \div x[2]
      rem == x[1] - fl * x[2]
  IN  IF 2 * rem < x[2] THEN fl
      ELSE IF 2 * rem > x[2] THEN fl + 1
      ELSE IF fl % 2 = 0 THEN fl ELSE fl + 1

----------------------------------------------------------------------------
(* Cell values.  A text cell is [k, v]: k = "num" for a finite number v,   *)
(* "inf" / "-inf" for the infinities float() accepts, "str" for text that  *)
(* float() rejects, "nan" for an empty cell.  The other cells are strings, *)
(* and an empty one is NULL.                                               *)

NULL == "<NA>"

Num(v)  == [k |-> "num", v |-> v]
Text    == [k |-> "str", v |-> 0]
PosInf  == [k |-> "inf", v |-> 0]
NegInf  == [k |-> "-inf", v |-> 0]
NoPrice == [k |-> "nan", v |-> 0]

\* pandas isna(): a key/text cell is NULL, a price cell is NoPrice
isnull(c) == c = NULL

required == {"game_id", "week", "player", "team", "market", "selection",
             "line", "price", "book", "kickoff_utc"}

gcols == <<"player", "team", "market", "selection", "line", "kickoff_utc">>

\* the proposition key of a row
Key(r) == <<r.player, r.team, r.market, r.selection, r.line, r.kickoff_utc>>

HasNullKey(r) == \E i \in 1..Len(gcols) : isnull(Key(r)[i])

----------------------------------------------------------------------------
(* Sequence helpers *)

Remove(s, i) == [j \in 1..(Len(s) - 1) |-> IF j < i THEN s[j] ELSE s[j + 1]]

head(s, n) == IF Len(s) <= n THEN s ELSE SubSeq(s, 1, n)

\* s.iloc[k:]
iloc_from(s, k) == IF Len(s) <= k THEN <<>> ELSE SubSeq(s, k + 1, Len(s))

Range(s) == {s[i] : i \in 1..Len(s)}

RECURSIVE SortAsc(_)
\* the fractions of s in ascending order (none is NaN)
SortAsc(s) ==
  IF s = <<>> THEN <<>>
  ELSE LET i == CHOOSE i \in 1..Len(s) : \A j \in 1..Len(s) : Le(s[i], s[j])
       IN  <<s[i]>> \o SortAsc(Remove(s, i))

RECURSIVE DescOrders(_, _)
\* the orders in which the positions I of e can be listed so that e is
\* descending along the list
DescOrders(e, I) ==
  IF I = {} THEN {<<>>}
  ELSE LET tops == {i \in I : \A j \in I : Ge(e[i], e[j])}
       IN  UNION {{<<i>> \o t : t \in DescOrders(e, I \ {i})} : i \in tops}

\* sort_values left out: the rows in the order they came in
SortDescAll_unsorted(s) == {s}

\* sort_values("ev_pct", ascending=False) with the default kind="quicksort",
\* which is not stable: every arrangement of the rows that is descending by
\* ev_pct is a possible result, rows of equal ev_pct in any relative order.
\* (No row that reaches a sort has a NaN ev_pct: the filters drop them.)
SortDescAll(s) ==
  {[i \in 1..Len(s) |-> s[o[i]]] :
     o \in DescOrders([i \in 1..Len(s) |-> s[i].ev_pct], 1..Len(s))}

----------------------------------------------------------------------------
(* The script's functions *)

\* american_to_prob with the favourite's formula written as -o/100
american_to_prob_ratio(o) ==
  CASE o.k = "num"  -> IF o.v < 0 THEN Frac(-o.v, 100)
                                  ELSE Frac(100, o.v + 100)
    [] o.k = "inf"  -> <<0, 1>>
    [] OTHER        -> NaN

\* lines 27-32.  float(o) accepts a number and "inf"/"-inf"/"nan"; on any
\* other text it raises and the function returns NaN.
american_to_prob(o) ==
  CASE o.k = "num"  -> IF o.v < 0 THEN Frac(-o.v, -o.v + 100)
                                  ELSE Frac(100, o.v + 100)
    [] o.k = "inf"  -> <<0, 1>>      \* 100/(inf+100) = 0.0
    [] o.k = "-inf" -> NaN           \* inf/inf
    [] o.k = "nan"  -> NaN           \* nan < 0 is False; 100/(nan+100)
    [] OTHER        -> NaN           \* except: return np.nan

BAND_LO == -115
BAND_HI == 200

\* in_band without its upper limit
in_band_lower(o) ==
  CASE o.k = "num"  -> o.v >= -115
    [] OTHER        -> FALSE

\* lines 43-47
in_band(o) ==
  CASE o.k = "num"  -> (o.v >= BAND_LO) /\ (o.v <= BAND_HI)
    [] o.k = "inf"  -> FALSE         \* inf <= 200 is False
    [] o.k = "-inf" -> FALSE         \* -inf >= -115 is False
    [] o.k = "nan"  -> FALSE         \* comparisons with nan are False
    [] OTHER        -> FALSE         \* except: return False

\* Series.median(): NaN skipped; NaN when nothing is left
median(s) ==
  LET v == SortAsc(SelectSeq(s, LAMBDA x : ~isnan(x)))
      n == Len(v)
  IN  IF n = 0 THEN NaN
      ELSE IF n % 2 = 1 THEN v[(n + 1) \div 2]
      ELSE Mul(Add(v[n \div 2], v[(n \div 2) + 1]), <<1, 2>>)

None == [k |-> "None", v |-> 0]

\* prob_to_american with the underdog's formula on both sides of 0.5
prob_to_american_plus(p) ==
  IF Le(p, <<0, 1>>) \/ Ge(p, <<1, 1>>) THEN None
  ELSE Num(round(Mul(Sub(Frac(p[2], p[1]), <<1, 1>>), <<100, 1>>)))

\* lines 67-70
prob_to_american(p) ==
  IF Le(p, <<0, 1>>) \/ Ge(p, <<1, 1>>) THEN None
  ELSE LET dec == Frac(p[2], p[1])
       IN  IF Ge(dec, <<2, 1>>)
           THEN Num(round(Mul(Sub(dec, <<1, 1>>), <<100, 1>>)))
           ELSE Num(round(Frac(-100 * Sub(dec, <<1, 1>>)[2], Sub(dec, <<1, 1>>)[1])))

\* build_parlay without the test of the games already used
build_parlay_anygame(pool, n) == head(pool, n)

\* build_parlay with the length tested before the row is added, not after
build_parlay_late(pool, n) ==
  LET RECURSIVE scan(_, _, _)
      scan(i, chosen, seen) ==
        IF i > Len(pool) THEN chosen
        ELSE IF pool[i].game_key \in seen THEN scan(i + 1, chosen, seen)
        ELSE IF Len(chosen) = n THEN Append(chosen, pool[i])
        ELSE scan(i + 1, Append(chosen, pool[i]), seen \cup {pool[i].game_key})
  IN  scan(1, <<>>, {})

\* lines 59-65.  pool is the sequence of the pool's rows in order.
build_parlay(pool, n) ==
  LET RECURSIVE scan(_, _, _)
      scan(i, chosen, seen) ==
        IF i > Len(pool) THEN chosen
        ELSE IF pool[i].game_key \in seen THEN scan(i + 1, chosen, seen)
        ELSE IF Len(chosen) + 1 = n THEN Append(chosen, pool[i])
        ELSE scan(i + 1, Append(chosen, pool[i]), seen \cup {pool[i].game_key})
  IN  scan(1, <<>>, {})

RECURSIVE prod(_)
\* np.prod over the legs' book_prob
prod(legs) ==
  IF legs = <<>> THEN <<1, 1>>
  ELSE Mul(legs[1].book_prob, prod(Tail(legs)))

\* lines 72-75: (ip, us)
parlay_metrics(legs) ==
  IF legs = <<>> THEN [ip |-> NaN, us |-> None, defined |-> FALSE]
  ELSE [ip |-> prod(legs), us |-> prob_to_american(prod(legs)), defined |-> TRUE]

\* str.upper().str.strip() on the book names of the feeds
upper_strip(b) ==
  CASE b = "dk"  -> "DK"
    [] b = " fd" -> "FD"
    [] b = "mgm" -> "MGM"
    [] OTHER     -> b

\* str.strip() on PROPS_URL
strip(u) == IF u = " " THEN "" ELSE u

----------------------------------------------------------------------------
(* Frames.  A frame is [columns, rows]; each row carries its index label.   *)

NoFrame == [columns |-> {}, rows |-> <<>>]

\* the rows with their positions as index labels (a fresh RangeIndex)
Reindex(rows) == [i \in 1..Len(rows) |-> [rows[i] EXCEPT !.index = i - 1]]

\* dropna(subset=["player","market","selection","price","book"])
RowIsNa(r) ==
  \/ isnull(r.player) \/ isnull(r.market) \/ isnull(r.selection)
  \/ r.price.k = "nan" \/ isnull(r.book)

\* groupby(gcols, dropna=False)["book_prob"].median(): a group for every
\* key among the rows, a null cell being a key value like any other
fair_prob(rows) ==
  [key \in {Key(rows[i]) : i \in 1..Len(rows)} |->
     LET grp == SelectSeq(rows, LAMBDA x : Key(x) = key)
     IN  median([i \in 1..Len(grp) |-> grp[i].book_prob])]

\* Order of the group keys in a groupby result (sort=True): by column, in
\* the order of gcols; Collation lists the key cells of the feeds in order.
Players == <<"P1", "P2", "P3", "P4", "P5", "P6", "P7", "P8", "P9">>

Collation == <<"1.5", "2.5">> \o Players \o <<"T", "k", "over", "yds">>

Rank(c) == CHOOSE i \in 1..Len(Collation) : Collation[i] = c

KeyLess(a, b) ==
  \E i \in 1..Len(gcols) :
     /\ \A j \in 1..(i - 1) : a[j] = b[j]
     /\ Rank(a[i]) < Rank(b[i])

\* groupby(gcols) with the default dropna=True: the groups are the keys of
\* the rows none of whose key cells is null
Groups(rows) == {Key(rows[i]) : i \in {i \in 1..Len(rows) : ~HasNullKey(rows[i])}}

RECURSIVE SortKeys(_)
SortKeys(K) ==
  IF K = {} THEN <<>>
  ELSE LET k == CHOOSE k \in K : \A m \in K \ {k} : KeyLess(k, m)
       IN  <<k>> \o SortKeys(K \ {k})

\* SeriesGroupBy.idxmax() for one group: the index label of the first row
\* holding the largest non-NaN ev_pct; -1 stands for the NaN it gives when
\* every ev_pct of the group is NaN
idxmax(rows, key) ==
  LET cand == {i \in 1..Len(rows) :
                 Key(rows[i]) = key /\ ~isnan(rows[i].ev_pct)}
      top  == {i \in cand : \A j \in cand : Ge(rows[i].ev_pct, rows[j].ev_pct)}
  IN  IF cand = {} THEN -1
      ELSE rows[CHOOSE i \in top : \A j \in top : i <= j].index

\* line 50: one index label per group, the groups in key order
BestIndex(rows) ==
  LET keys == SortKeys(Groups(rows))
  IN  [i \in 1..Len(keys) |-> idxmax(rows, keys[i])]

\* df.loc[label]: the row carrying that index label
loc(rows, label) == rows[CHOOSE i \in 1..Len(rows) : rows[i].index = label]

----------------------------------------------------------------------------
(* The script, block by block *)

Exit(code, printed) ==
  /\ pc' = "exit"
  /\ exit_status' = code
  /\ out' = out \o printed

\* an uncaught exception: traceback on stderr, exit status 1
Crash == Exit(1, <<>>)

\* lines 4-9.  int() of line 5 raises ValueError unless ROW_LIMIT is an
\* integer literal; the test of PROPS_URL comes after it.
CheckConfig ==
  /\ pc = "config"
  /\ IF env.ROW_LIMIT.k # "num" THEN Crash
     ELSE IF strip(env.PROPS_URL) = ""
          THEN Exit(2, <<"FAIL: PROPS_URL env var is required">>)
          ELSE /\ pc' = "load"
               /\ UNCHANGED <<exit_status, out>>
  /\ UNCHANGED <<env, source, df, best, singles, best_pool, parlay3, parlay4,
                 metrics>>

\* lines 12-18
Load ==
  /\ pc = "load"
  /\ IF ~source.readable
     THEN /\ Exit(3, <<"FAIL: Could not read CSV">>)
          /\ df' = df
     ELSE /\ df' = [columns |-> source.columns,
                    rows |-> IF env.ROW_LIMIT.v > 0
                             THEN head(Reindex(source.rows), env.ROW_LIMIT.v)
                             ELSE Reindex(source.rows)]
          /\ pc' = "schema"
          /\ UNCHANGED <<exit_status, out>>
  /\ UNCHANGED <<env, source, best, singles, best_pool, parlay3, parlay4,
                 metrics>>

\* lines 20-25
CheckSchema ==
  /\ pc = "schema"
  /\ IF required \ df.columns # {}
     THEN Exit(4, <<"FAIL: Missing required columns", "Header seen">>)
     ELSE /\ pc' = "prepare"
          /\ UNCHANGED <<exit_status, out>>
  /\ UNCHANGED <<env, source, df, best, singles, best_pool, parlay3, parlay4,
                 metrics>>

\* lines 34-36
Prepare ==
  /\ pc = "prepare"
  /\ LET kept == SelectSeq(df.rows, LAMBDA r : ~RowIsNa(r))
     IN  df' = [columns |-> df.columns \cup {"book_prob"},
                rows |-> [i \in 1..Len(kept) |->
                           [kept[i] EXCEPT !.book = upper_strip(@)]
                             @@ [book_prob |-> american_to_prob(kept[i].price)]]]
  /\ pc' = "consensus"
  /\ UNCHANGED <<env, source, exit_status, out, best, singles, best_pool,
                 parlay3, parlay4, metrics>>

\* lines 38-48.  The merge gives the frame a fresh RangeIndex.
Consensus ==
  /\ pc = "consensus"
  /\ \E rows \in {Reindex(df.rows)} : \E fair \in {fair_prob(rows)} :
         df' = [columns |-> df.columns \cup {"fair_prob", "ev_pct", "in_band"},
                rows |-> [i \in 1..Len(rows) |->
                           LET f == fair[Key(rows[i])]
                           IN  rows[i] @@
                                 [fair_prob |-> f,
                                  ev_pct |-> Mul(Sub(f, rows[i].book_prob), <<100, 1>>),
                                  in_band |-> in_band(rows[i].price)]]]
  /\ pc' = "best"
  /\ UNCHANGED <<env, source, exit_status, out, best, singles, best_pool,
                 parlay3, parlay4, metrics>>

\* lines 50-51.  With a group whose ev_pct are all NaN, idxmax gives NaN for
\* it (or raises ValueError), and df.loc[idx] then raises KeyError: either
\* way the script dies here.
SelectBest ==
  /\ pc = "best"
  /\ \E idx \in {BestIndex(df.rows)} :
         IF \E i \in 1..Len(idx) : idx[i] = -1
         THEN /\ Crash
              /\ best' = best
         ELSE /\ best' = [columns |-> df.columns,
                          rows |-> [i \in 1..Len(idx) |-> loc(df.rows, idx[i])]]
              /\ pc' = "select"
              /\ UNCHANGED <<exit_status, out>>
  /\ UNCHANGED <<env, source, df, singles, best_pool, parlay3, parlay4, metrics>>

EV_SINGLES  == 2
EV_POOL     == 1
TOP_SINGLES == 6
POOL_CAP    == 40
LEGS_A      == 3
LEGS_B      == 4
SKIP_B      == 3

\* lines 53-57
Select ==
  /\ pc = "select"
  /\ \E s \in SortDescAll(SelectSeq(best.rows,
                 LAMBDA r : r.in_band /\ Ge(r.ev_pct, <<EV_SINGLES, 1>>))) :
       singles' = [columns |-> best.columns, rows |-> head(s, TOP_SINGLES)]
  /\ \E p \in SortDescAll(SelectSeq(best.rows,
                 LAMBDA r : Ge(r.ev_pct, <<EV_POOL, 1>>))) :
       best_pool' =
         [columns |-> best.columns \cup {"game_key"},
          rows |-> [i \in 1..Len(head(p, POOL_CAP)) |->
                     p[i] @@ [game_key |-> ToString(p[i].game_id)]]]
  /\ pc' = "parlays"
  /\ UNCHANGED <<env, source, exit_status, out, df, best, parlay3, parlay4,
                 metrics>>

\* pd.DataFrame(chosen): no columns at all when nothing was chosen
Legs(pool, chosen) ==
  [columns |-> IF chosen = <<>> THEN {} ELSE pool.columns, rows |-> chosen]

\* lines 77-80
Parlays ==
  /\ pc = "parlays"
  /\ parlay3' = Legs(best_pool, build_parlay(best_pool.rows, LEGS_A))
  /\ parlay4' = Legs(best_pool,
                     build_parlay(iloc_from(best_pool.rows, SKIP_B), LEGS_B))
  /\ metrics' = [p3 |-> parlay_metrics(parlay3'.rows),
                 p4 |-> parlay_metrics(parlay4'.rows)]
  /\ pc' = "report"
  /\ UNCHANGED <<env, source, exit_status, out, df, best, singles, best_pool>>

\* lines 99-120
Report ==
  /\ pc = "report"
  /\ Exit(0, <<"1) DATA SOURCE">>
              \o (IF Len(singles.rows) > 0 THEN <<"2) TOP SINGLES">>
                                           ELSE <<"2) TOP SINGLES - None">>)
              \o (IF parlay3.rows # <<>> THEN <<"3A) PARLAY (3 legs)">> ELSE <<>>)
              \o (IF parlay4.rows # <<>> THEN <<"3B) PARLAY (4 legs)">> ELSE <<>>)
              \o <<"4) NOTES">>)
  /\ UNCHANGED <<env, source, df, best, singles, best_pool, parlay3, parlay4,
                 metrics>>

Next ==
  \/ CheckConfig
  \/ Load
  \/ CheckSchema
  \/ Prepare
  \/ Consensus
  \/ SelectBest
  \/ Select
  \/ Parlays
  \/ Report

----------------------------------------------------------------------------
(* Environments and feeds *)

NoMetrics == [p3 |-> [ip |-> NaN, us |-> None, defined |-> FALSE],
              p4 |-> [ip |-> NaN, us |-> None, defined |-> FALSE]]

Start(e, src) ==
  /\ env = e
  /\ source = src
  /\ pc = "config"
  /\ exit_status = -1
  /\ out = <<>>
  /\ df = NoFrame
  /\ best = NoFrame
  /\ singles = NoFrame
  /\ best_pool = NoFrame
  /\ parlay3 = NoFrame
  /\ parlay4 = NoFrame
  /\ metrics = NoMetrics

SeqsUpTo(S, n) == UNION {[1..k -> S] : k \in 0..n}

\* one row of the table
Offer(game, player, team, line, price, book) ==
  [index |-> 0, game_id |-> game, week |-> 1, player |-> player, team |-> team,
   market |-> "yds", selection |-> "over", line |-> line, price |-> price,
   book |-> book, kickoff_utc |-> "k"]

Feed(rows) == [readable |-> TRUE, columns |-> required, rows |-> rows]

\* a table that cannot be fetched or parsed, and one without its price column
Unreadable == [readable |-> FALSE, columns |-> {}, rows |-> <<>>]
NoPriceColumn == [readable |-> TRUE, columns |-> required \ {"price"}, rows |-> <<>>]

\* ROW_LIMIT is unset (the default "5000"), a small limit, 0, or not a number
DEFAULT_ROW_LIMIT == 5000
SMALL_ROW_LIMIT == 2

\* the setups in which something is wrong before any row is looked at
FaultySetups ==
  [PROPS_URL : {"", " ", "url"}, ROW_LIMIT : {Num(DEFAULT_ROW_LIMIT), Text}]
    \X {Unreadable, NoPriceColumn, Feed(<<>>)}

GoodEnvs == [PROPS_URL : {"url"},
             ROW_LIMIT : {Num(DEFAULT_ROW_LIMIT), Num(SMALL_ROW_LIMIT)}]

\* Row-level feeds: any short table of offers on two lines of one player,
\* with or without a team, at a favourite's price, an underdog's price or an
\* unparsable one, and rows with no price at all.
RowDomain ==
  {Offer(1, "P1", t, l, p, "dk") :
     t \in {"T", NULL}, l \in {"1.5", "2.5"}, p \in {Num(-120), Num(105), Text}}
  \cup {Offer(1, "P1", "T", "1.5", NoPrice, "dk")}

Init ==
  \/ \E su \in FaultySetups : Start(su[1], su[2])
  \/ \E e \in GoodEnvs, rows \in SeqsUpTo(RowDomain, MaxRows) : Start(e, Feed(rows))

Spec == Init /\ [][Next]_vars

----------------------------------------------------------------------------
(* Slates: feeds of several propositions, each quoted by a few books *)

Books == <<"dk", " fd", "mgm">>

\* proposition i of a slate, in game g, quoted at the prices q by Books
Quoted(i, g, q) ==
  [j \in 1..Len(q) |-> Offer(g, Players[i], "T", "1.5", q[j], Books[j])]

RECURSIVE Flatten(_)
Flatten(ss) == IF ss = <<>> THEN <<>> ELSE ss[1] \o Flatten(Tail(ss))

SetMax(S) == CHOOSE m \in S : \A x \in S : x <= m

RECURSIVE GameSeqs(_, _)
\* the assignments of at most G games to k propositions, the games numbered
\* in the order in which the feed first mentions them
GameSeqs(k, G) ==
  IF k = 0 THEN {<<>>}
  ELSE UNION {{Append(g, n) : n \in 1..(IF SetMax(Range(g) \cup {0}) < G
                                       THEN SetMax(Range(g) \cup {0}) + 1
                                       ELSE G)}
              : g \in GameSeqs(k - 1, G)}

\* the quotes a proposition of a mixed slate can carry
Quotes ==
  { <<Num(-120), Num(-105), Num(105)>>,  \* best +105: edge 2.4, in band
    <<Num(100), Num(110)>>,              \* best +110: edge 1.2, pool only
    <<Num(200), Num(300)>>,              \* best +300: edge 4.2, above the band
    <<Num(-200), Num(-150)>>,            \* best -150: edge 3.3, below the band
    <<Num(100), PosInf>> }               \* best "inf": edge 25, book_prob 0

\* a mixed slate: k propositions, proposition i in game g[i] with quotes q[i]
MixedSlate(k, g, q) == Flatten([i \in 1..k |-> Quoted(i, g[i], q[i])])

MixedGames == {1, 2}

\* proposition i of a ladder slate is quoted -115 and +(100 + 5i): the best
\* offers are all in band and their edges grow with i
Rung(i) == <<Num(-115), Num(100 + 5 * i)>>

LadderSlate(k, g) == Flatten([i \in 1..k |-> Quoted(i, g[i], Rung(i))])

DefaultEnv == [PROPS_URL |-> "url", ROW_LIMIT |-> Num(DEFAULT_ROW_LIMIT)]

InitSlate ==
  \/ \E su \in FaultySetups : Start(su[1], su[2])
  \/ \E k \in 0..MaxProps :
       \E g \in GameSeqs(k, Cardinality(MixedGames)), q \in [1..k -> Quotes] :
          Start(DefaultEnv, Feed(MixedSlate(k, g, q)))
  \/ \E k \in 0..MaxLadder :
       \E g \in GameSeqs(k, LadderGames) :
          Start(DefaultEnv, Feed(LadderSlate(k, g)))

SpecSlate == InitSlate /\ [][Next]_vars

----------------------------------------------------------------------------
(* Single-offer feeds: one offer at any price *)

Prices ==
  {Num(v) : v \in (-MaxPrice)..MaxPrice} \cup {PosInf, NegInf, Text}

InitOdds ==
  \/ \E su \in FaultySetups : Start(su[1], su[2])
  \/ \E p \in Prices :
       Start(DefaultEnv, Feed(<<Offer(1, "P1", "T", "1.5", p, "dk")>>))

SpecOdds == InitOdds /\ [][Next]_vars

----------------------------------------------------------------------------
(* Properties *)

\* the run got past the three fatal checks
PassedSchema ==
  /\ env.ROW_LIMIT.k = "num"
  /\ strip(env.PROPS_URL) # ""
  /\ source.readable
  /\ required \subseteq source.columns

\* lines 50-51 have run and built best
BestBuilt == best.columns # {}

\* lines 53-57 have run
Selected == singles.columns # {}

\* lines 77-80 have run
ParlaysBuilt == pc = "report" \/ (pc = "exit" /\ exit_status = 0)

NothingComputed ==
  /\ "book_prob" \notin df.columns
  /\ best = NoFrame /\ singles = NoFrame /\ best_pool = NoFrame
  /\ parlay3 = NoFrame /\ parlay4 = NoFrame /\ metrics = NoMetrics

BestOf(key) == {j \in 1..Len(best.rows) : Key(best.rows[j]) = key}

\* the first row, in input order, holding the largest defined ev_pct of its key
IsFirstMax(rows, i) ==
  /\ ~isnan(rows[i].ev_pct)
  /\ \A j \in 1..Len(rows) :
       (Key(rows[j]) = Key(rows[i]) /\ ~isnan(rows[j].ev_pct)) =>
          /\ Ge(rows[i].ev_pct, rows[j].ev_pct)
          /\ (j < i => Gt(rows[i].ev_pct, rows[j].ev_pct))

\* C1: once best is built it holds exactly one row for every proposition key
\* among the valid rows, keys with a null team, line or kickoff included.
C1_OneBestPerKey ==
  BestBuilt =>
    \A i \in 1..Len(df.rows) : Cardinality(BestOf(Key(df.rows[i]))) = 1

\* C2: for every key with an offer of defined ev_pct, the best offer of that
\* key is the first row in input order holding the largest defined ev_pct of
\* the key (so never a row of undefined ev_pct).
C2_BestIsFirstMax ==
  BestBuilt =>
    \A i \in 1..Len(df.rows) :
       ~isnan(df.rows[i].ev_pct) =>
          \E j \in BestOf(Key(df.rows[i])) :
             \E m \in 1..Len(df.rows) :
                best.rows[j] = df.rows[m] /\ IsFirstMax(df.rows, m)

\* C3: a run that has all required columns ends with every report section
\* printed, whatever its rows; with no valid row it reports no singles and
\* prints no parlay.
C3_NonFatal ==
  (pc = "exit" /\ PassedSchema) =>
     /\ exit_status = 0
     /\ out[1] = "1) DATA SOURCE"
     /\ out[2] \in {"2) TOP SINGLES", "2) TOP SINGLES - None"}
     /\ out[Len(out)] = "4) NOTES"
     /\ (df.rows = <<>> =>
           out = <<"1) DATA SOURCE", "2) TOP SINGLES - None", "4) NOTES">>)

\* C7: a missing locator ends the run with status 2, an unreadable source
\* with 3, missing columns with 4, checked in that order, and nothing is
\* computed or reported in such a run.
C7_FatalExits ==
  pc = "exit" =>
     /\ strip(env.PROPS_URL) = "" =>
           (exit_status = 2 /\ Len(out) = 1 /\ NothingComputed)
     /\ (strip(env.PROPS_URL) # "" /\ ~source.readable) =>
           (exit_status = 3 /\ Len(out) = 1 /\ NothingComputed)
     /\ (strip(env.PROPS_URL) # "" /\ source.readable
           /\ ~(required \subseteq source.columns)) =>
           (exit_status = 4 /\ Len(out) = 2 /\ NothingComputed)

NoSameGame(legs) ==
  \A i, j \in 1..Len(legs) :
     i # j => (legs[i].game_key # legs[j].game_key /\ legs[i].game_id # legs[j].game_id)

\* the two pools the script builds parlays from
Pool3 == best_pool.rows
Pool4 == iloc_from(best_pool.rows, 3)

\* C4: no parlay has two legs of one game or more legs than its target: the
\* 3-leg parlay of the full pool, the 4-leg parlay of the pool after its
\* first 3 entries, and build_parlay on either pool for any target n >= 1.
C4_ParlayLegs ==
  ParlaysBuilt =>
     /\ NoSameGame(parlay3.rows) /\ Len(parlay3.rows) <= 3
     /\ NoSameGame(parlay4.rows) /\ Len(parlay4.rows) <= 4
     /\ \A n \in 1..MaxLegs :
          /\ NoSameGame(build_parlay(Pool3, n)) /\ Len(build_parlay(Pool3, n)) <= n
          /\ NoSameGame(build_parlay(Pool4, n)) /\ Len(build_parlay(Pool4, n)) <= n

\* both parlays are full, and the first passed over a row of a used game
\* and stopped before the end of its pool
C4_Witness ==
  /\ ParlaysBuilt
  /\ Len(parlay3.rows) = 3 /\ Len(parlay4.rows) = 4
  /\ Pool3[1].game_key = Pool3[2].game_key
  /\ Len(Pool3) > 4

\* C5: every singles row has a price in [-115, 200] and an ev_pct of at
\* least 2.0, is a best offer, and there are at most 6 of them.
C5_SinglesFilter ==
  Selected =>
     /\ Len(singles.rows) <= 6
     /\ \A i \in 1..Len(singles.rows) :
          LET r == singles.rows[i]
          IN  /\ r.price.k = "num" /\ r.price.v >= -115 /\ r.price.v <= 200
              /\ Ge(r.ev_pct, <<2, 1>>)
              /\ r \in Range(best.rows)

\* six singles, with more than six best offers that qualify
C5_Witness ==
  /\ Selected
  /\ Len(singles.rows) = 6
  /\ Cardinality({j \in 1..Len(best.rows) :
                    best.rows[j].in_band /\ Ge(best.rows[j].ev_pct, <<2, 1>>)}) > 6

\* best offers with an edge of 2 or more above, below and inside the band
C5_WitnessBand ==
  /\ Selected
  /\ Len(singles.rows) > 0
  /\ \E j \in 1..Len(best.rows) :
        Ge(best.rows[j].ev_pct, <<2, 1>>) /\ best.rows[j].price = Num(300)
  /\ \E j \in 1..Len(best.rows) :
        Ge(best.rows[j].ev_pct, <<2, 1>>) /\ best.rows[j].price = Num(-150)

\* C6 as stated: each singles row has a strictly larger ev_pct than the next.
C6_StrictlyDescending ==
  Selected =>
     \A i \in 1..(Len(singles.rows) - 1) :
        Gt(singles.rows[i].ev_pct, singles.rows[i + 1].ev_pct)

\* C6, amended: the singles are in descending order of ev_pct, no row having
\* a smaller ev_pct than the next; rows of equal ev_pct are adjacent.
C6_Descending ==
  Selected =>
     \A i \in 1..(Len(singles.rows) - 1) :
        Ge(singles.rows[i].ev_pct, singles.rows[i + 1].ev_pct)

\* singles of equal edge, listed against their order in best
C6_Witness ==
  /\ Selected
  /\ Len(singles.rows) >= 2
  /\ singles.rows[1].ev_pct = singles.rows[2].ev_pct
  /\ singles.rows[1] = best.rows[2]
  /\ singles.rows[2] = best.rows[1]

\* singles of different edges, which best holds in ascending order
C6_WitnessLadder ==
  /\ Selected
  /\ Len(singles.rows) = 6
  /\ Gt(singles.rows[1].ev_pct, singles.rows[6].ev_pct)
  /\ Lt(best.rows[1].ev_pct, best.rows[2].ev_pct)

\* the positions of a pool at which a game appears for the first time
FirstOcc(P) ==
  {i \in 1..Len(P) : \A j \in 1..(i - 1) : P[j].game_key # P[i].game_key}

\* the rows of P at the positions I, in pool order
At(P, I) ==
  [m \in 1..Cardinality(I) |->
     P[CHOOSE i \in I : Cardinality({j \in I : j < i}) = m - 1]]

\* the first row of each of the first n games met in P
FirstFit(P, n) ==
  At(P, {i \in FirstOcc(P) : Cardinality({j \in FirstOcc(P) : j < i}) < n})

SortedDesc(P) ==
  \A i \in 1..(Len(P) - 1) : Ge(P[i].ev_pct, P[i + 1].ev_pct)

\* C9: the pool is descending by ev_pct, and on it build_parlay returns the
\* scan-order first fit: the first row of each of the first min(n, d) games
\* met, d being the number of games in the pool; it is short exactly when
\* d < n.
C9_FirstFit ==
  ParlaysBuilt =>
     /\ SortedDesc(best_pool.rows)
     /\ parlay3.rows = FirstFit(Pool3, 3)
     /\ parlay4.rows = FirstFit(Pool4, 4)
     /\ \A n \in 1..MaxLegs : \A P \in {Pool3, Pool4} :
          /\ build_parlay(P, n) = FirstFit(P, n)
          /\ (Len(build_parlay(P, n)) < n) <=> (Cardinality(FirstOcc(P)) < n)

\* a full 3-leg parlay that passed over a row, and a short 4-leg parlay
C9_Witness ==
  /\ ParlaysBuilt
  /\ Len(parlay3.rows) = 3
  /\ Pool3[2].game_key = Pool3[1].game_key
  /\ Len(Pool3) > 4
  /\ Len(Pool4) >= 4
  /\ Len(parlay4.rows) \in {2, 3}

InUnit(x) == Gt(x, <<0, 1>>) /\ Lt(x, <<1, 1>>)

MetricsOk(legs, m) ==
  legs # <<>> =>
     /\ m.defined
     /\ InUnit(m.ip)
     /\ m.us.k = "num"
     /\ (Le(m.ip, <<1, 2>>) => m.us.v > 0)
     /\ (Gt(m.ip, <<1, 2>>) => m.us.v < 0)

\* C10 as stated: every pool leg has a book_prob strictly between 0 and 1,
\* and every parlay that is not empty has a combined probability strictly
\* between 0 and 1 and a combined price, positive up to 0.5 and negative
\* above it.
C10_PoolProbabilities ==
  ParlaysBuilt =>
     /\ \A i \in 1..Len(best_pool.rows) : InUnit(best_pool.rows[i].book_prob)
     /\ MetricsOk(parlay3.rows, metrics.p3)
     /\ MetricsOk(parlay4.rows, metrics.p4)

Finite(legs) == \A i \in 1..Len(legs) : legs[i].price.k = "num"

MetricsAmended(legs, m) ==
  /\ Finite(legs) => MetricsOk(legs, m)
  /\ (legs # <<>> /\ ~Finite(legs)) =>
        (m.defined /\ m.ip = <<0, 1>> /\ m.us = None)

\* C10, amended: every pool leg has a book_prob of at least 0 and below 1,
\* and it is 0 only at an infinite price; a parlay whose legs all have finite
\* prices has a combined probability strictly between 0 and 1 and a combined
\* price, positive up to 0.5 and negative above it; a parlay with a leg at an
\* infinite price has combined probability 0 and no combined price.
C10_FinitePoolProbabilities ==
  ParlaysBuilt =>
     /\ \A i \in 1..Len(best_pool.rows) :
          LET r == best_pool.rows[i]
          IN  /\ Ge(r.book_prob, <<0, 1>>) /\ Lt(r.book_prob, <<1, 1>>)
              /\ (r.book_prob = <<0, 1>>) <=> (r.price = PosInf)
     /\ MetricsAmended(parlay3.rows, metrics.p3)
     /\ MetricsAmended(parlay4.rows, metrics.p4)

\* a parlay of finite prices above 0.5, with a negative price, beside a
\* pool leg at an infinite price
C10_Witness ==
  /\ ParlaysBuilt
  /\ Len(parlay3.rows) = 2
  /\ \E i \in 1..2 : parlay3.rows[i].price = PosInf
  /\ metrics.p3.us = None

\* a one-leg parlay above 0.5, priced negative
C10_WitnessFavourite ==
  /\ ParlaysBuilt
  /\ parlay3.rows # <<>> /\ Finite(parlay3.rows)
  /\ Gt(metrics.p3.ip, <<1, 2>>) /\ metrics.p3.us.v < 0

\* C8 as stated: every numerically parsable price converts to a probability
\* strictly between 0 and 1, and -100 and +100 convert to exactly 0.5.
C8_OddsInUnit ==
  "book_prob" \in df.columns =>
     \A i \in 1..Len(df.rows) :
        LET r == df.rows[i]
        IN  /\ r.price.k \in {"num", "inf", "-inf"} => InUnit(r.book_prob)
            /\ r.price \in {Num(-100), Num(100)} => r.book_prob = <<1, 2>>

\* C8, amended: every finite price other than 0 converts to a probability
\* strictly between 0 and 1, and -100 and +100 convert to exactly 0.5; price
\* 0 converts to exactly 1, +inf to 0, and -inf to NaN.
C8_NonzeroOddsInUnit ==
  "book_prob" \in df.columns =>
     \A i \in 1..Len(df.rows) :
        LET r == df.rows[i]
        IN  /\ (r.price.k = "num" /\ r.price.v # 0) => InUnit(r.book_prob)
            /\ r.price \in {Num(-100), Num(100)} => r.book_prob = <<1, 2>>
            /\ r.price = Num(0) => r.book_prob = <<1, 1>>
            /\ r.price = PosInf => r.book_prob = <<0, 1>>
            /\ r.price = NegInf => isnan(r.book_prob)

\* a favourite's price has been converted
C8_Witness ==
  /\ "book_prob" \in df.columns
  /\ Len(df.rows) = 1
  /\ df.rows[1].price = Num(-100)
  /\ df.rows[1].book_prob = <<1, 2>>

====
